---- MODULE Spec2Model ----
(***************************************************************************)
(* Question delivery and mastery tracking of leetnode: the                 *)
(* questionsWithAddedTime API handler, the welcome-quiz page that fetches  *)
(* and submits question instances, and the attempt / mastery records of    *)
(* the Prisma schema.                                                      *)
(***************************************************************************)
EXTENDS Integers, Sequences, FiniteSets

(* ------------------------------ bounds --------------------------------- *)
\* concurrent invocations of the questionsWithAddedTime handler
MaxReq == 2
\* submitAnswer invocations (rows the Attempt table may hold)
MaxSubmit == 3
\* fixed-point denominator of the Float masteryLevel: level / MasteryScale
MasteryScale == 8
\* variation ids a question of the bank may have in the editor's listing
MaxVariation == 3
\* answer options an author adds in the editor
MaxAnswers == 2
\* add/edit requests one editor sends
MaxSent == 1
\* createVerificationToken and useVerificationToken calls of the adapter
MaxCreate == 3
MaxUse == 2
\* addUser invocations
MaxAdd == 3
\* days after the first one
MaxDay == 1

(* ------------------------------ values --------------------------------- *)
None == <<>>
Some(x) == <<x>>
\* a ?? b
Coalesce(a, b) == IF a = None THEN b ELSE a

Range(s) == {s[i] : i \in 1..Len(s)}
Includes(s, x) == x \in Range(s)

SetMax(S) == CHOOSE x \in S : \A y \in S : y <= x
SetMin(S) == CHOOSE x \in S : \A y \in S : x <= y

\* all orderings of the elements of a sequence
Orderings(s) ==
  {[i \in 1..Len(s) |-> s[p[i]]] :
     p \in {f \in [1..Len(s) -> 1..Len(s)] : \A i, j \in 1..Len(s) : f[i] = f[j] => i = j}}

\* the orders in which the elements of a set may be listed
OrdersOf(S) ==
  {f \in [1..Cardinality(S) -> S] : \A i, j \in 1..Cardinality(S) : f[i] = f[j] => i = j}

(* ------------------------------ schema --------------------------------- *)
Users == {"u1", "u2"}
welcomeQuiz == "welcome-quiz"
emptyCourse == "new-course"
Courses == {welcomeQuiz, emptyCourse}

\* Topic rows in declaration order, with topicPrior @default(0.25)
TopicSlugs == <<"tA", "tB", "tC">>
topicPrior == MasteryScale \div 4
CourseTopics(courseSlug) ==
  IF courseSlug = welcomeQuiz THEN <<"tA", "tB">> ELSE <<"tC">>

\* QuestionDataType of the Question rows
dynamicVariables ==
  << [name |-> "x", randomize |-> TRUE,  isFinalAnswer |-> FALSE, default |-> 1, min |-> 0, max |-> 2],
     [name |-> "y", randomize |-> FALSE, isFinalAnswer |-> TRUE,  default |-> 0, min |-> 0, max |-> 0] >>
dynamicMethods == << [expr |-> <<"y", "=", "6", "/", "x">>] >>
staticVariables ==
  << [name |-> "r", randomize |-> FALSE, isFinalAnswer |-> FALSE, default |-> 5, min |-> 0, max |-> 0] >>
twoOfThree ==
  << [key |-> "a", answerContent |-> 10, isCorrect |-> TRUE],
     [key |-> "b", answerContent |-> 20, isCorrect |-> FALSE],
     [key |-> "c", answerContent |-> 30, isCorrect |-> TRUE] >>
oneOfTwo ==
  << [key |-> "a", answerContent |-> 1, isCorrect |-> TRUE],
     [key |-> "b", answerContent |-> 2, isCorrect |-> FALSE] >>

\* Question rows: (questionId, variationId) is the id; variationId 0 is dynamic
Questions ==
  { [questionId |-> 1, variationId |-> 0, topicSlug |-> "tA",
     questionData |-> [variables |-> Some(dynamicVariables), methods |-> Some(dynamicMethods), answers |-> None]],
    [questionId |-> 2, variationId |-> 1, topicSlug |-> "tA",
     questionData |-> [variables |-> None, methods |-> None, answers |-> Some(twoOfThree)]],
    [questionId |-> 89, variationId |-> 1, topicSlug |-> "tB",
     questionData |-> [variables |-> Some(staticVariables), methods |-> None, answers |-> Some(oneOfTwo)]] }

QuestionOf(questionId, variationId) ==
  CHOOSE q \in Questions : q.questionId = questionId /\ q.variationId = variationId

(* --------------------------- string helpers ---------------------------- *)
\* strings are sequences of one-character strings
DigitChars == <<"0", "1", "2", "3", "4", "5", "6", "7", "8", "9">>
IsDigit(c) == Includes(DigitChars, c)
DigitVal(c) == (CHOOSE i \in 1..Len(DigitChars) : DigitChars[i] = c) - 1

RECURSIVE DigitsValue(_, _)
DigitsValue(s, acc) ==
  IF s = <<>> \/ ~IsDigit(Head(s)) THEN acc
  ELSE DigitsValue(Tail(s), acc * 10 + DigitVal(Head(s)))

\* parseInt(s, 10): the value of the longest prefix of decimal digits
\* (only called on strings that start with a digit)
parseInt(s) == DigitsValue(s, 0)

(* ------------------------- Expression Evaluator ------------------------ *)
Count(s, c) == Cardinality({i \in 1..Len(s) : s[i] = c})

\* the values CustomEval may draw for the variables of a question:
\* a randomized variable takes any value of [min, max], another its default
SampleSpace(variables) ==
  {f \in [1..Len(variables) -> 0..2] :
     \A i \in 1..Len(variables) :
       IF variables[i].randomize
       THEN variables[i].min <= f[i] /\ f[i] <= variables[i].max
       ELSE f[i] = variables[i].default}

Defined(env, tok) == IsDigit(tok) \/ tok \in DOMAIN env
TokenValue(env, tok) == IF IsDigit(tok) THEN DigitVal(tok) ELSE env[tok]

\* one method "lhs = a" or "lhs = a / b" or "lhs = a + b" evaluated in env:
\* the new environment, or the failure of that method
EvalMethod(env, expr, index) ==
  IF Count(expr, "=") # 1 \/ Len(expr) \notin {3, 5} \/ expr[2] # "="
    THEN [ok |-> FALSE, index |-> index, env |-> env]
  ELSE IF ~Defined(env, expr[3]) \/ (Len(expr) = 5 /\ ~Defined(env, expr[5]))
    THEN [ok |-> FALSE, index |-> index, env |-> env]
  ELSE IF Len(expr) = 5 /\ expr[4] = "/" /\ TokenValue(env, expr[5]) = 0
    THEN [ok |-> FALSE, index |-> index, env |-> env]
  ELSE LET a == TokenValue(env, expr[3])
           v == IF Len(expr) = 3 THEN a
                ELSE IF expr[4] = "/" THEN a \div TokenValue(env, expr[5])
                ELSE a + TokenValue(env, expr[5])
       IN [ok |-> TRUE, index |-> index,
           env |-> [n \in DOMAIN env \cup {expr[1]} |-> IF n = expr[1] THEN v ELSE env[n]]]

\* methods are applied strictly in declaration order; the first failure stops
RECURSIVE EvalMethods(_, _, _)
EvalMethods(env, methods, index) ==
  IF index > Len(methods) THEN [ok |-> TRUE, index |-> 0, env |-> env]
  ELSE LET step == EvalMethod(env, methods[index].expr, index)
       IN IF step.ok THEN EvalMethods(step.env, methods, index + 1) ELSE step

\* the options of a final-answer variable: its value, and a perturbed distractor
AnswerOptions(value) ==
  << [key |-> "a", answerContent |-> value, isCorrect |-> TRUE],
     [key |-> "b", answerContent |-> value + 1, isCorrect |-> FALSE] >>

\* CustomEval(variables, methods) for one draw of the randomized variables:
\* ok = FALSE stands for the Error it throws (index: the offending method)
CustomEval(variables, methods, sample) ==
  LET givenNames == {variables[i].name : i \in {j \in 1..Len(variables) : ~variables[j].isFinalAnswer}}
      env0 == [n \in givenNames |->
                 sample[CHOOSE i \in 1..Len(variables) : variables[i].name = n]]
      res == EvalMethods(env0, methods, 1)
      finals == {i \in 1..Len(variables) : variables[i].isFinalAnswer}
  IN IF ~res.ok
       THEN [ok |-> FALSE, index |-> res.index, questionVariables |-> None, questionAnswers |-> None]
     ELSE IF \E i \in finals : variables[i].name \notin DOMAIN res.env
       THEN [ok |-> FALSE, index |-> 0, questionVariables |-> None, questionAnswers |-> None]
     ELSE [ok |-> TRUE, index |-> 0,
           questionVariables |->
             Some([i \in 1..Len(variables) |->
                     [variables[i] EXCEPT !.default = res.env[variables[i].name]]]),
           questionAnswers |->
             IF finals = {} THEN Some(<<>>)
             ELSE Some(AnswerOptions(res.env[variables[SetMin(finals)].name]))]

\* CustomMath.shuffleArray: every ordering of the array is possible
shuffleArray(array) == Orderings(array)

(* ------------------------------- state --------------------------------- *)
VARIABLES
  qats,       \* QuestionWithAddedTime rows in addedTime order; qatId = index
  attempts,   \* Attempt rows in submittedAt order
  masteries,  \* Mastery rows by (userId, topicSlug)
  req,        \* invocations of the questionsWithAddedTime handler
  sub,        \* invocations of the submitAnswer handler
  tab,        \* the welcome-quiz page (QuizQuestion component) of a browser
  deleted,    \* the users and courses deleted, and the rows deleted with them
  editor,     \* the question editor (QuestionEditor component) of an author
  verification, \* the VerificationToken rows and the adapter calls on them
  users,      \* the User rows by email, and invocations of the addUser handler
  account     \* the points of the signed-in user: the User columns, the days
              \* of the user's attempts, and the userInfo query and the
              \* updatePoints mutations of the page

\* what the quiz page and its two handlers leave alone
adminVars == <<deleted, editor, verification, users, account>>
vars == <<qats, attempts, masteries, req, sub, tab, deleted, editor, verification,
          users, account>>

Requests == 1..MaxReq
Submits == 1..MaxSubmit

\* the signed-in user of the browser
tabUser == "u1"
maxQnCount == 15

\* req.query.prevId values sent by callers ("" and absent are both falsy)
PrevIds == {<<>>, <<"1">>, <<"8", "9", "x">>}
\* getServerSession: no session, or the session of a user
Sessions == {None} \cup {Some(u) : u \in Users}

(* ---------------------------------- points ----------------------------- *)
Days == 0..MaxDay

\* a user without attempts and points, on the first day, and a page that
\* has not asked for the userInfo yet
idleAccount ==
  [today |-> 0, lastActive |-> 0, attempts |-> [day \in Days |-> 0], points |-> 0,
   userInfo |-> None, stale |-> TRUE, pending |-> <<>>]

(* ----------------------- questionsWithAddedTime ------------------------ *)
excluded2025QuestionIds ==
  <<89, 98, 90, 91, 92, 93, 94, 95, 96, 97,
    79, 106, 107, 108, 99, 74, 100, 101, 102, 103, 104, 105>>

\* lines 18-30: the retired ids, plus the numeric prevId when one is given
ExcludedIds(prevId) ==
  IF prevId # <<>> /\ ~Includes(excluded2025QuestionIds, parseInt(prevId))
  THEN Append(excluded2025QuestionIds, parseInt(prevId))
  ELSE excluded2025QuestionIds

\* where-clause of findFirst: an undefined userId is no filter at all
MatchesWhere(row, session, courseSlug, excluded) ==
  /\ session = None \/ row.userId = session[1]
  /\ row.courseSlug = courseSlug
  /\ ~Includes(excluded, row.questionId)

\* prisma.questionWithAddedTime.findFirst ... orderBy addedTime desc; 0 is null
FindFirst(rows, session, courseSlug, excluded) ==
  LET hits == {i \in 1..Len(rows) \ deleted.qats :
                 MatchesWhere(rows[i], session, courseSlug, excluded)}
  IN IF hits = {} THEN 0 ELSE SetMax(hits)

(* ----------------------------- Recommender ----------------------------- *)
MasteryLevelOf(ms, session, topicSlug) ==
  IF session # None /\ ms[session[1], topicSlug].exists
  THEN ms[session[1], topicSlug].masteryLevel
  ELSE topicPrior

\* a Mastery row that relies on the column default of masteryLevel
initialize_ColumnDefault(topicSlug) ==
  [exists |-> TRUE, masteryLevel |-> 0, errorMeter |-> 0, topicPing |-> FALSE,
   version |-> 0]

\* initialize(topic): the Mastery row of a pair that had none
initialize(topicSlug) ==
  [exists |-> TRUE, masteryLevel |-> topicPrior, errorMeter |-> 0,
   topicPing |-> FALSE, version |-> 0]

\* no Mastery row for the pair
noMastery ==
  [exists |-> FALSE, masteryLevel |-> 0, errorMeter |-> 0, topicPing |-> FALSE,
   version |-> 0]

\* initialize(topic) for every topic of the course that has no Mastery row
InitializeMasteries(ms, session, courseSlug) ==
  [k \in DOMAIN ms |->
     IF session # None /\ k[1] = session[1] /\ Includes(CourseTopics(courseSlug), k[2])
        /\ ~ms[k].exists
     THEN initialize(k[2])
     ELSE ms[k]]

\* lowest mastery first, ties broken by the topic declared last
RecommendTopic_LastOnTie(ms, session, courseSlug) ==
  LET topics == CourseTopics(courseSlug)
      lowest == SetMin({MasteryLevelOf(ms, session, topics[i]) : i \in 1..Len(topics)})
  IN topics[SetMax({i \in 1..Len(topics) : MasteryLevelOf(ms, session, topics[i]) = lowest})]

\* lowest mastery first, ties broken by declaration order
RecommendTopic(ms, session, courseSlug) ==
  LET topics == CourseTopics(courseSlug)
      lowest == SetMin({MasteryLevelOf(ms, session, topics[i]) : i \in 1..Len(topics)})
  IN topics[SetMin({i \in 1..Len(topics) : MasteryLevelOf(ms, session, topics[i]) = lowest})]

Attempted(rows, atts, session, courseSlug, questionId) ==
  \E i \in 1..Len(atts) \ deleted.attempts :
    /\ session # None /\ atts[i].userId = session[1]
    /\ atts[i].courseSlug = courseSlug
    /\ rows[atts[i].qatId].questionId = questionId

LastServed(rows, session, courseSlug, questionId) ==
  LET served == {i \in 1..Len(rows) \ deleted.qats :
                   /\ session # None /\ rows[i].userId = session[1]
                   /\ rows[i].courseSlug = courseSlug
                   /\ rows[i].questionId = questionId}
  IN IF served = {} THEN 0 ELSE SetMax(served)

\* the results RecommendQuestion may give: recommendedQuestion = None is
\* the "exhausted" signal
RecommendQuestion(rows, atts, ms, session, courseSlug, excludedQuestionIds) ==
  LET topic == RecommendTopic(ms, session, courseSlug)
      eligible == {q \in Questions :
                     q.topicSlug = topic /\ q.questionId \notin excludedQuestionIds}
      fresh == {q \in eligible : ~Attempted(rows, atts, session, courseSlug, q.questionId)}
      oldest == SetMin({LastServed(rows, session, courseSlug, q.questionId) : q \in eligible})
      chosen == IF fresh # {} THEN fresh
                ELSE {q \in eligible : LastServed(rows, session, courseSlug, q.questionId) = oldest}
  IN IF eligible = {}
     THEN {[recommendedTopicName |-> topic, recommendedQuestion |-> None]}
     ELSE {[recommendedTopicName |-> topic, recommendedQuestion |-> Some(q)] : q \in chosen}

(* ------------------------------ handler -------------------------------- *)
idleReq ==
  [pc |-> "idle", session |-> None, courseSlug |-> welcomeQuiz, prevId |-> <<>>,
   recommendedQuestion |-> None, evaluatedQuestionData |-> None,
   status |-> 0, body |-> 0]

\* lines 15-30: the session and the query of the request
ReqStart(r, session, courseSlug, prevId) ==
  /\ req[r].pc = "idle"
  /\ \A earlier \in 1..(r - 1) : req[earlier].pc # "idle"
  /\ req' = [req EXCEPT ![r] = [@ EXCEPT !.pc = "find", !.session = session,
                                        !.courseSlug = courseSlug, !.prevId = prevId]]

\* lines 33-58 and, when a row is found, line 101
ReqFind(r) ==
  /\ req[r].pc = "find"
  /\ LET found == FindFirst(qats, req[r].session, req[r].courseSlug,
                            ExcludedIds(req[r].prevId))
     IN req' = [req EXCEPT ![r] =
                  IF found # 0
                  THEN [@ EXCEPT !.pc = "done", !.status = 200, !.body = found]
                  ELSE [@ EXCEPT !.pc = "recommend"]]
  /\ UNCHANGED <<qats, attempts, masteries, sub, tab>>
  /\ UNCHANGED adminVars

\* a handler that swallows the Error of CustomEval and goes on to create
Evaluated_Swallow(request, q, ev) ==
  [request EXCEPT !.pc = "create",
                  !.recommendedQuestion = Some(<<q.questionId, q.variationId>>),
                  !.evaluatedQuestionData = IF q.variationId = 0 THEN Some(ev) ELSE None]

\* lines 65-73 for a recommended question: a static question goes on to
\* create; a dynamic one goes on with the result of CustomEval, whose Error
\* is not caught and ends the request with status 500
Evaluated(request, q, ev) ==
  IF q.variationId # 0
  THEN [request EXCEPT !.pc = "create",
                       !.recommendedQuestion = Some(<<q.questionId, q.variationId>>)]
  ELSE IF ev.ok
  THEN [request EXCEPT !.pc = "create",
                       !.recommendedQuestion = Some(<<q.questionId, q.variationId>>),
                       !.evaluatedQuestionData = Some(ev)]
  ELSE [request EXCEPT !.pc = "done", !.status = 500,
                       !.recommendedQuestion = Some(<<q.questionId, q.variationId>>),
                       !.evaluatedQuestionData = Some(ev)]

\* lines 62-73: RecommendQuestion(courseSlug, 0), then CustomEval when the
\* question is dynamic; reading .questionData of no question ends the
\* request with status 500
ReqRecommend(r) ==
  /\ req[r].pc = "recommend"
  /\ LET ms == InitializeMasteries(masteries, req[r].session, req[r].courseSlug)
     IN /\ masteries' = ms
        /\ \E rec \in RecommendQuestion(qats, attempts, ms, req[r].session,
                                        req[r].courseSlug, {}) :
             IF rec.recommendedQuestion = None
             THEN req' = [req EXCEPT ![r] = [@ EXCEPT !.pc = "done", !.status = 500]]
             ELSE LET q == rec.recommendedQuestion[1]
                  IN IF q.variationId = 0
                     THEN \E sample \in SampleSpace(q.questionData.variables[1]) :
                            req' = [req EXCEPT ![r] =
                              Evaluated(@, q, CustomEval(q.questionData.variables[1],
                                                         q.questionData.methods[1], sample))]
                     ELSE req' = [req EXCEPT ![r] = Evaluated(@, q, None)]
  /\ UNCHANGED <<qats, attempts, sub, tab>>
  /\ UNCHANGED adminVars

\* the operands of ?? exchanged: the stored variables win over the resolved
NewVariables_StoredFirst(questionData, evaluatedQuestionData) ==
  Coalesce(questionData.variables,
           IF evaluatedQuestionData = None THEN None
           ELSE evaluatedQuestionData[1].questionVariables)

\* lines 75-88: the variables and the answers of the new row
NewVariables(questionData, evaluatedQuestionData) ==
  Coalesce(IF evaluatedQuestionData = None THEN None
           ELSE evaluatedQuestionData[1].questionVariables,
           questionData.variables)

NewAnswers(questionData, evaluatedQuestionData) ==
  Coalesce(questionData.answers,
           IF evaluatedQuestionData = None THEN None
           ELSE evaluatedQuestionData[1].questionAnswers)

\* lines 75-101: create the row and answer with it; without a session the
\* required userId is missing and create rejects
ReqCreate(r) ==
  /\ req[r].pc = "create"
  /\ LET q == QuestionOf(req[r].recommendedQuestion[1][1], req[r].recommendedQuestion[1][2])
         answers == NewAnswers(q.questionData, req[r].evaluatedQuestionData)
     IN IF req[r].session = None \/ answers = None
        THEN /\ req' = [req EXCEPT ![r] = [@ EXCEPT !.pc = "done", !.status = 500]]
             /\ qats' = qats
        ELSE \E shuffled \in shuffleArray(answers[1]) :
               /\ qats' = Append(qats,
                    [userId |-> req[r].session[1],
                     courseSlug |-> req[r].courseSlug,
                     questionId |-> q.questionId,
                     variationId |-> q.variationId,
                     variables |-> NewVariables(q.questionData, req[r].evaluatedQuestionData),
                     answers |-> shuffled])
               /\ req' = [req EXCEPT ![r] =
                            [@ EXCEPT !.pc = "done", !.status = 200, !.body = Len(qats) + 1]]
  /\ UNCHANGED <<attempts, masteries, sub, tab>>
  /\ UNCHANGED adminVars

(* ---------------------- submitAnswer / Mastery Model ------------------- *)
\* a decrement that does not stop at the current value
MasteryDown_Overshoot(level) == level - (level \div 2) - 1

\* recordAttempt: on correct, half of the remaining gap towards 1;
\* on incorrect, half of the current value towards 0
MasteryDown(level) == level - level \div 2
MasteryUp(level) == level + (MasteryScale - level) \div 2
UpdatedMastery(level, isCorrect) ==
  IF isCorrect THEN MasteryUp(level) ELSE MasteryDown(level)

\* recordAttempt: errorMeter counts the incorrect attempts since the last
\* correct one and flags the topic at the threshold of 3
UpdatedRow(row, level, isCorrect) ==
  LET errorMeter == IF isCorrect THEN 0 ELSE row.errorMeter + 1
  IN [row EXCEPT !.masteryLevel = level, !.version = @ + 1,
                 !.errorMeter = errorMeter,
                 !.topicPing = @ \/ errorMeter >= 3]

idleSub ==
  [pc |-> "idle", userId |-> tabUser, qatId |-> 0, courseSlug |-> welcomeQuiz,
   isCorrect |-> FALSE, topicSlug |-> "tA",
   readLevel |-> 0, readVersion |-> 0, masteryLevel |-> 0]

\* POST /api/question/submitAnswer?qatId=..&courseSlug=.. with its body
\* (the attemptedKeys of the body are stored and not read again: left out)
SubStart(s, userId, qatId, courseSlug, isCorrect, topicSlug) ==
  /\ sub[s].pc = "idle"
  /\ \A earlier \in 1..(s - 1) : sub[earlier].pc # "idle"
  /\ sub' = [sub EXCEPT ![s] =
       [@ EXCEPT !.pc = "attempt", !.userId = userId, !.qatId = qatId,
                 !.courseSlug = courseSlug, !.isCorrect = isCorrect,
                 !.topicSlug = topicSlug]]

\* the Attempt row of the submission, submitted now, and the lastActive of
\* its user
SubCreateAttempt(s) ==
  /\ sub[s].pc = "attempt"
  /\ attempts' = Append(attempts,
       [qatId |-> sub[s].qatId, userId |-> sub[s].userId,
        courseSlug |-> sub[s].courseSlug, isCorrect |-> sub[s].isCorrect])
  /\ sub' = [sub EXCEPT ![s] = [@ EXCEPT !.pc = "read"]]
  /\ account' = IF sub[s].userId = tabUser
                THEN [account EXCEPT !.attempts[account.today] = @ + 1,
                                     !.lastActive = account.today]
                ELSE account
  /\ UNCHANGED <<qats, masteries, req, tab, deleted, editor, verification, users>>

\* recordAttempt, first half: initialize the row when there is none, then
\* read the stored mastery and its version
SubReadMastery(s) ==
  /\ sub[s].pc = "read"
  /\ LET k == <<sub[s].userId, sub[s].topicSlug>>
         row == IF masteries[k].exists THEN masteries[k]
                ELSE initialize(sub[s].topicSlug)
     IN /\ masteries' = [masteries EXCEPT ![k] = row]
        /\ sub' = [sub EXCEPT ![s] = [@ EXCEPT !.pc = "write",
                                              !.readLevel = row.masteryLevel,
                                              !.readVersion = row.version]]
  /\ UNCHANGED <<qats, attempts, req, tab>>
  /\ UNCHANGED adminVars

\* last writer wins: the update is written whatever the stored version is
SubWriteMastery_LastWriterWins(s) ==
  /\ sub[s].pc = "write"
  /\ LET k == <<sub[s].userId, sub[s].topicSlug>>
         level == UpdatedMastery(sub[s].readLevel, sub[s].isCorrect)
     IN /\ masteries' = [masteries EXCEPT ![k] =
             UpdatedRow(@, level, sub[s].isCorrect)]
        /\ sub' = [sub EXCEPT ![s] = [@ EXCEPT !.pc = "done", !.masteryLevel = level]]
  /\ UNCHANGED <<qats, attempts, req, tab>>
  /\ UNCHANGED adminVars

\* recordAttempt, second half: the update is written only against the
\* version it was derived from; a conflict is retried with a fresh read
SubWriteMastery(s) ==
  /\ sub[s].pc = "write"
  /\ LET k == <<sub[s].userId, sub[s].topicSlug>>
         level == UpdatedMastery(sub[s].readLevel, sub[s].isCorrect)
     IN IF masteries[k].version = sub[s].readVersion
        THEN /\ masteries' = [masteries EXCEPT ![k] =
                  UpdatedRow(@, level, sub[s].isCorrect)]
             /\ sub' = [sub EXCEPT ![s] = [@ EXCEPT !.pc = "done", !.masteryLevel = level]]
        ELSE /\ masteries' = masteries
             /\ sub' = [sub EXCEPT ![s] = [@ EXCEPT !.pc = "read"]]
  /\ UNCHANGED <<qats, attempts, req, tab>>
  /\ UNCHANGED adminVars

(* --------------------------- welcome quiz page ------------------------- *)
idleTab ==
  [ucqat |-> 0, stale |-> TRUE, fetching |-> 0, selectedKeys |-> <<>>,
   submitAnswerStatus |-> "idle", mutation |-> 0, qnCount |-> 0]

\* lines 237-241
correctKeys(answerOptions) ==
  LET correct == SelectSeq(answerOptions, LAMBDA item : item.isCorrect)
  IN [i \in 1..Len(correct) |-> correct[i].key]

\* the comparison of the lengths left out
IsCorrect_EveryOnly(selectedKeys, keys) ==
  \A i \in 1..Len(selectedKeys) : Includes(keys, selectedKeys[i])

\* lines 373-375
IsCorrect(selectedKeys, keys) ==
  /\ Len(selectedKeys) = Len(keys)
  /\ \A i \in 1..Len(selectedKeys) : Includes(keys, selectedKeys[i])

\* a form that is rendered whatever the count of the submissions
FormShown_NoLimit == tab.ucqat # 0

\* line 289: the question form is rendered, not the review view (the user
\* of the welcome quiz is a new user: isNewUser is true)
FormShown == tab.ucqat # 0 /\ tab.qnCount # maxQnCount

\* lines 86-98: the get-ucqat query (re)fetches when it has no fresh data
TabFetch(r) ==
  /\ tab.stale /\ tab.fetching = 0
  /\ ReqStart(r, Some(tabUser), welcomeQuiz, <<>>)
  /\ tab' = [tab EXCEPT !.stale = FALSE, !.fetching = r]
  /\ UNCHANGED <<qats, attempts, masteries, sub>>
  /\ UNCHANGED adminVars

\* the response of the query arrives: data on 200, the old data stays on error
TabReceive ==
  /\ tab.fetching # 0
  /\ req[tab.fetching].pc = "done"
  /\ tab' = [tab EXCEPT !.fetching = 0,
                 !.ucqat = IF req[tab.fetching].status = 200
                           THEN req[tab.fetching].body ELSE @]
  /\ UNCHANGED <<qats, attempts, masteries, req, sub>>
  /\ UNCHANGED adminVars

\* lines 403-451: Radio.Group when one key is correct, else Checkbox.Group
TabSelect(key) ==
  /\ FormShown
  /\ LET answerOptions == qats[tab.ucqat].answers
         selected == tab.selectedKeys
     IN /\ key \in {answerOptions[i].key : i \in 1..Len(answerOptions)}
        /\ tab' = [tab EXCEPT !.selectedKeys =
             IF Len(correctKeys(answerOptions)) = 1 THEN <<key>>
             ELSE IF Includes(selected, key)
                  THEN SelectSeq(selected, LAMBDA k : k # key)
                  ELSE Append(selected, key)]
  /\ UNCHANGED <<qats, attempts, masteries, req, sub>>
  /\ UNCHANGED adminVars

\* lines 359-380: form onSubmit; the button is blocked while a submission loads
TabSubmit(s) ==
  /\ FormShown
  /\ tab.submitAnswerStatus # "loading"
  /\ tab.selectedKeys # <<>>
  /\ LET row == qats[tab.ucqat]
     IN SubStart(s, tabUser, tab.ucqat, welcomeQuiz,
                 IsCorrect(tab.selectedKeys, correctKeys(row.answers)),
                 QuestionOf(row.questionId, row.variationId).topicSlug)
  /\ tab' = [tab EXCEPT !.submitAnswerStatus = "loading", !.mutation = s]
  /\ UNCHANGED <<qats, attempts, masteries, req>>
  /\ UNCHANGED adminVars

\* lines 186-189: the points the page posts to /api/user/updatePoints
PostedPoints(userInfo) ==
  IF userInfo.attempts[userInfo.lastActive] = 0
  THEN userInfo.points + 5
  ELSE userInfo.points + 1

\* lines 129-153: onSuccess of the submitAnswer mutation; its updatePoints()
\* posts when the page has the userInfo (lines 180-191)
TabSubmitSuccess ==
  /\ tab.submitAnswerStatus = "loading"
  /\ sub[tab.mutation].pc = "done"
  /\ tab' = [tab EXCEPT !.selectedKeys = <<>>,
                 !.submitAnswerStatus = "success",
                 !.qnCount = @ + 1,
                 !.stale = IF tab.qnCount < maxQnCount THEN TRUE ELSE @]
  /\ account' = IF tab.qnCount < maxQnCount /\ account.userInfo # None
                THEN [account EXCEPT !.pending = Append(@, PostedPoints(account.userInfo[1]))]
                ELSE account
  /\ UNCHANGED <<qats, attempts, masteries, req, sub, deleted, editor, verification, users>>

\* lines 165-174: the userInfo query of the page (re)fetches: the user's
\* points and lastActive, and the attempts of each day
UserInfoFetch ==
  /\ account.stale
  /\ account' = [account EXCEPT
       !.stale = FALSE,
       !.userInfo = Some([lastActive |-> account.lastActive,
                          attempts |-> account.attempts,
                          points |-> account.points])]
  /\ UNCHANGED <<qats, attempts, masteries, req, sub, tab, deleted, editor,
                 verification, users>>

\* /api/user/updatePoints stores the points of a post, and the onSuccess of
\* the mutation, lines 212-218, invalidates the userInfo
updatePoints(i) ==
  /\ i \in 1..Len(account.pending)
  /\ account' = [account EXCEPT
       !.points = account.pending[i],
       !.pending = SubSeq(@, 1, i - 1) \o SubSeq(@, i + 1, Len(@)),
       !.stale = IF tab.qnCount < maxQnCount THEN TRUE ELSE @]
  /\ UNCHANGED <<qats, attempts, masteries, req, sub, tab, deleted, editor,
                 verification, users>>

\* the day ends, between two submissions of the page
Midnight ==
  /\ account.today < MaxDay
  /\ tab.submitAnswerStatus # "loading"
  /\ account' = [account EXCEPT !.today = @ + 1]
  /\ UNCHANGED <<qats, attempts, masteries, req, sub, tab, deleted, editor,
                 verification, users>>

\* a request to the handler by any other caller of the API
Request(r, session, courseSlug, prevId) ==
  /\ ReqStart(r, session, courseSlug, prevId)
  /\ UNCHANGED <<qats, attempts, masteries, sub, tab>>
  /\ UNCHANGED adminVars

\* a submission to submitAnswer by any other caller of the API, for a row
\* of the user
Submission(s, userId, qatId, isCorrect) ==
  /\ qats[qatId].userId = userId
  /\ SubStart(s, userId, qatId, qats[qatId].courseSlug, isCorrect,
              QuestionOf(qats[qatId].questionId, qats[qatId].variationId).topicSlug)
  /\ UNCHANGED <<qats, attempts, masteries, req, tab>>
  /\ UNCHANGED adminVars

(* ------------------------------ deletions ------------------------------ *)
\* the rows a delete takes with it: onDelete: Cascade of QuestionWithAddedTime
\* on its user and course, and of Attempt on its user, course and
\* QuestionWithAddedTime
CascadeQats(userIds, courseSlugs) ==
  {i \in 1..Len(qats) : qats[i].userId \in userIds \/ qats[i].courseSlug \in courseSlugs}
CascadeAttempts(userIds, courseSlugs, qatIds) ==
  {i \in 1..Len(attempts) :
     \/ attempts[i].userId \in userIds
     \/ attempts[i].courseSlug \in courseSlugs
     \/ attempts[i].qatId \in qatIds}

\* prisma.user.delete: the user, and by cascade the user's Mastery rows,
\* QuestionWithAddedTime rows and Attempt rows
DeleteUser(userId) ==
  /\ userId \notin deleted.users
  /\ LET qatIds == CascadeQats({userId}, {})
     IN deleted' = [deleted EXCEPT
          !.users = @ \cup {userId},
          !.qats = @ \cup qatIds,
          !.attempts = @ \cup CascadeAttempts({userId}, {}, qatIds)]
  /\ masteries' = [k \in DOMAIN masteries |->
                     IF k[1] = userId THEN noMastery ELSE masteries[k]]
  /\ UNCHANGED <<qats, attempts, req, sub, tab, editor, verification, users, account>>

\* prisma.course.delete: the course, and by cascade its
\* QuestionWithAddedTime rows and Attempt rows
DeleteCourse(courseSlug) ==
  /\ courseSlug \notin deleted.courses
  /\ LET qatIds == CascadeQats({}, {courseSlug})
     IN deleted' = [deleted EXCEPT
          !.courses = @ \cup {courseSlug},
          !.qats = @ \cup qatIds,
          !.attempts = @ \cup CascadeAttempts({}, {courseSlug}, qatIds)]
  /\ UNCHANGED <<qats, attempts, masteries, req, sub, tab, editor, verification, users, account>>

(* --------------------------- question editor --------------------------- *)
\* String.prototype.trim, for the blank " "
RECURSIVE TrimStart(_)
TrimStart(s) == IF s # <<>> /\ Head(s) = " " THEN TrimStart(Tail(s)) ELSE s
RECURSIVE TrimEnd(_)
TrimEnd(s) ==
  IF s # <<>> /\ s[Len(s)] = " " THEN TrimEnd(SubSeq(s, 1, Len(s) - 1)) ELSE s
Trim(s) == TrimEnd(TrimStart(s))

\* Number.prototype.toString of a positive integer
RECURSIVE ToString(_)
ToString(n) ==
  IF n < 10 THEN <<DigitChars[n + 1]>>
  ELSE Append(ToString(n \div 10), DigitChars[(n % 10) + 1])

\* an expression that matches any "=" as one with text on both sides
ExprRegex_AnyEquals(s) ==
  Len(s) >= 1 /\ Count(s, "=") >= 1 /\ s[1] # "=" /\ s[Len(s)] # "="

\* /^[^=]+=[^=]+$/
ExprRegex(s) ==
  Len(s) >= 1 /\ Count(s, "=") = 1 /\ s[1] # "=" /\ s[Len(s)] # "="

\* the zod schema of the form: an undefined list passes, a list must pass
\* its checks; a variable name has no "=" and no "$", /^(?![^=$]*[=$]).*$/
\* (title, topic and difficulty are taken as filled in)
Validate(values) ==
  /\ values.variables = None \/
       /\ values.variables[1] # <<>>
       /\ \A i \in 1..Len(values.variables[1]) :
            LET name == Trim(values.variables[1][i].name)
            IN Count(name, "=") = 0 /\ Count(name, "$") = 0 /\ Len(name) >= 1
  /\ values.methods = None \/
       /\ values.methods[1] # <<>>
       /\ \A i \in 1..Len(values.methods[1]) :
            ExprRegex(Trim(values.methods[1][i].expr))
            /\ Len(Trim(values.methods[1][i].expr)) >= 1
  /\ values.answers = None \/
       /\ \A i \in 1..Len(values.answers[1]) :
            /\ Len(values.answers[1][i].answerContent) >= 1
            /\ Len(values.answers[1][i].answerContent) <= 500
       /\ Len(values.answers[1]) >= 2
       /\ \E i \in 1..Len(values.answers[1]) : values.answers[1][i].isCorrect

\* the variation id after "return curr + 1" or "return acc" for each listed id
RECURSIVE Reduce(_, _, _)
Reduce(variationIds, rest, acc) ==
  IF rest = <<>> THEN acc
  ELSE LET curr == Head(rest)
       IN Reduce(variationIds, Tail(rest),
                 IF curr > acc /\ ~Includes(variationIds, acc) THEN acc ELSE curr + 1)

\* the variation ids of the listed questions of the base question, in the
\* order of the listing
RECURSIVE VariationIdsOf(_, _)
VariationIdsOf(questions, questionId) ==
  IF questions = <<>> THEN <<>>
  ELSE IF Head(questions).questionId = questionId
       THEN <<Head(questions).variationId>> \o VariationIdsOf(Tail(questions), questionId)
       ELSE VariationIdsOf(Tail(questions), questionId)

\* "Get the smallest id not already used (in case of gaps)"
unusedVariationId(questions, value) ==
  LET variationIds == VariationIdsOf(questions, parseInt(value))
  IN Reduce(variationIds, variationIds, 1)

\* the previews: a text, or the values that were evaluated
previewMessage == [text |-> "Refresh to View Variables", values |-> <<>>]
previewFinalAnsMessage == [text |-> "Refresh to View Final Answers", values |-> <<>>]
invalidMessage == [text |-> "Invalid Variables or Methods", values |-> <<>>]
Rendered(values) == [text |-> "", values |-> values]

\* a toast: its kind and, for the cause "invalid-methods", the method
Toast(kind) == [kind |-> kind, index |-> 0, expr |-> <<>>, sanitized |-> <<>>]

\* the form of the editor opened with initialValues on the listing questions
OpenEditor(questions, currIds, initialValues) ==
  [questions |-> questions, currIds |-> currIds,
   questionType |-> IF initialValues.variationId = 0 THEN "dynamic" ELSE "static",
   baseQuestionId |-> initialValues.baseQuestionId,
   variationId |-> initialValues.variationId,
   variables |-> initialValues.variables,
   methods |-> initialValues.methods,
   answers |-> initialValues.answers,
   preview |-> previewMessage, finalAnsPreview |-> previewFinalAnsMessage,
   toast |-> Toast("none"), sent |-> <<>>]

\* a switch that leaves the variation id of the form as it is
setQuestionType_KeepsVariation(value) ==
  /\ value # editor.questionType
  /\ editor' = [editor EXCEPT !.questionType = value,
                              !.baseQuestionId = IF value = "dynamic" THEN None ELSE @]
  /\ UNCHANGED <<qats, attempts, masteries, req, sub, tab, deleted, verification, users, account>>

\* SegmentedControl onChange
setQuestionType(value) ==
  /\ value # editor.questionType
  /\ editor' =
       IF value = "dynamic"
       THEN [editor EXCEPT !.questionType = value, !.variationId = 0,
                           !.baseQuestionId = None]
       ELSE [editor EXCEPT
               !.questionType = value, !.variationId = 1,
               !.variables =
                 IF @ = None THEN None
                 ELSE Some([i \in 1..Len(@[1]) |->
                              [@[1][i] EXCEPT !.randomize = FALSE, !.min = 0, !.max = 0]])]
  /\ UNCHANGED <<qats, attempts, masteries, req, sub, tab, deleted, verification, users, account>>

\* the options of the Base Question select: the listed questions of
\* variation 1, by the string of their id; None clears the select
BaseQuestionOptions ==
  {None} \cup {Some(ToString(editor.questions[i].questionId)) :
                 i \in {j \in 1..Len(editor.questions) : editor.questions[j].variationId = 1}}

\* Base Question select onChange (the select is shown for static questions)
SelectBaseQuestion(value) ==
  /\ editor.questionType = "static"
  /\ value \in BaseQuestionOptions
  /\ editor' = [editor EXCEPT
       !.baseQuestionId = value,
       !.variationId = IF value = None THEN 1
                       ELSE unusedVariationId(editor.questions, value[1])]
  /\ UNCHANGED <<qats, attempts, masteries, req, sub, tab, deleted, verification, users, account>>

\* list ?? []
ListOf(list) == IF list = None THEN <<>> ELSE list[1]

\* getInputProps(`variables.${index}.name`)
TypeVariableName(index, name) ==
  /\ editor.variables # None /\ index \in 1..Len(editor.variables[1])
  /\ editor' = [editor EXCEPT !.variables = Some([@[1] EXCEPT ![index].name = name])]
  /\ UNCHANGED <<qats, attempts, masteries, req, sub, tab, deleted, verification, users, account>>

\* getInputProps(`methods.${index}.expr`)
TypeMethodExpr(index, expr) ==
  /\ editor.methods # None /\ index \in 1..Len(editor.methods[1])
  /\ editor' = [editor EXCEPT !.methods = Some([@[1] EXCEPT ![index].expr = expr])]
  /\ UNCHANGED <<qats, attempts, masteries, req, sub, tab, deleted, verification, users, account>>

\* form.removeListItem(list, index)
RemoveListItem(list, index) ==
  SubSeq(list, 1, index - 1) \o SubSeq(list, index + 1, Len(list))

\* lines 1740-1748
newAnswer ==
  /\ editor.questionType = "static"
  /\ Len(ListOf(editor.answers)) < MaxAnswers
  /\ editor' = [editor EXCEPT
       !.answers = Some(Append(ListOf(@),
                               [answerContent |-> <<>>, isCorrect |-> FALSE]))]
  /\ UNCHANGED <<qats, attempts, masteries, req, sub, tab, deleted, verification, users, account>>

\* getInputProps(`answers.${index}.answerContent`)
TypeAnswerContent(index, content) ==
  /\ editor.questionType = "static"
  /\ editor.answers # None /\ index \in 1..Len(editor.answers[1])
  /\ editor' = [editor EXCEPT
       !.answers = Some([@[1] EXCEPT ![index].answerContent = content])]
  /\ UNCHANGED <<qats, attempts, masteries, req, sub, tab, deleted, verification, users, account>>

\* "Set Correct Answer", lines 1669-1674
ToggleCorrect(index) ==
  /\ editor.questionType = "static"
  /\ editor.answers # None /\ index \in 1..Len(editor.answers[1])
  /\ editor' = [editor EXCEPT
       !.answers = Some([@[1] EXCEPT ![index].isCorrect = ~@])]
  /\ UNCHANGED <<qats, attempts, masteries, req, sub, tab, deleted, verification, users, account>>

removeAnswer(index) ==
  /\ editor.questionType = "static"
  /\ editor.answers # None /\ index \in 1..Len(editor.answers[1])
  /\ editor' = [editor EXCEPT !.answers = Some(RemoveListItem(@[1], index))]
  /\ UNCHANGED <<qats, attempts, masteries, req, sub, tab, deleted, verification, users, account>>

\* "Clear All"
ClearAll ==
  /\ editor' = [editor EXCEPT !.baseQuestionId = None, !.variables = None,
                              !.methods = None, !.answers = None,
                              !.preview = previewMessage,
                              !.finalAnsPreview = previewFinalAnsMessage]
  /\ UNCHANGED <<qats, attempts, masteries, req, sub, tab, deleted, verification, users, account>>

\* the variable names after "variable.name = variable.name.trim()"
TrimmedNames(variables) ==
  IF variables = None THEN None
  ELSE Some([i \in 1..Len(variables[1]) |->
               [variables[1][i] EXCEPT !.name = Trim(@)]])

\* an expression without its blanks
RECURSIVE Sanitized(_)
Sanitized(expr) ==
  IF expr = <<>> THEN <<>>
  ELSE IF Head(expr) = " " THEN Sanitized(Tail(expr))
  ELSE <<Head(expr)>> \o Sanitized(Tail(expr))

\* the outcomes of the try block of handlePreviewChange: the previews of a
\* result, or the Error that was thrown. CustomEval reads a name as one
\* token and an expression as its tokens without blanks, and draws the
\* randomized variables only when toRandomize
PreviewOutcomes(variables, methods, toRandomize) ==
  IF variables = None \/ methods = None
  THEN {[ok |-> FALSE, index |-> 0, preview |-> invalidMessage,
         finalAnsPreview |-> invalidMessage]}
  ELSE LET evalVariables ==
             [i \in 1..Len(variables[1]) |->
                [variables[1][i] EXCEPT !.name = IF Len(@) = 1 THEN @[1] ELSE ""]]
           evalMethods ==
             [i \in 1..Len(methods[1]) |-> [expr |-> Sanitized(methods[1][i].expr)]]
           samples ==
             IF toRandomize THEN SampleSpace(evalVariables)
             ELSE {[i \in 1..Len(evalVariables) |-> evalVariables[i].default]}
       IN {LET ev == CustomEval(evalVariables, evalMethods, sample)
           IN IF ev.ok
              THEN [ok |-> TRUE, index |-> 0,
                    preview |-> Rendered([i \in 1..Len(ev.questionVariables[1]) |->
                                            ev.questionVariables[1][i].default]),
                    finalAnsPreview |-> Rendered([i \in 1..Len(ev.questionAnswers[1]) |->
                                                    ev.questionAnswers[1][i].answerContent])]
              ELSE [ok |-> FALSE, index |-> ev.index, preview |-> invalidMessage,
                    finalAnsPreview |-> invalidMessage] :
           sample \in samples}

\* the toast after the try block; the toast of the catch block holds the
\* details of the method for the cause "invalid-methods", the message
\* otherwise
PreviewToast(methods, out, toRandomize) ==
  IF ~out.ok /\ out.index # 0
  THEN [kind |-> "invalid-methods", index |-> out.index,
        expr |-> methods[1][out.index].expr,
        sanitized |-> Sanitized(methods[1][out.index].expr)]
  ELSE IF ~out.ok THEN Toast("error")
  ELSE IF toRandomize THEN Toast("randomized")
  ELSE Toast("success")

\* the static branch of handlePreviewChange, lines 1105-1131
StaticPreview(variables) ==
  [editor EXCEPT
     !.variables = variables,
     !.preview = IF variables = None \/ variables = Some(<<>>)
                 THEN [text |-> "No variables specified", values |-> <<>>]
                 ELSE Rendered([i \in 1..Len(variables[1]) |-> variables[1][i].default]),
     !.toast = IF variables = None \/ variables = Some(<<>>)
               THEN Toast("warning") ELSE Toast("success")]

\* a catch block that sets the preview of the variables only
handlePreviewChange_OnePreview(toRandomize) ==
  /\ LET variables == TrimmedNames(editor.variables)
     IN IF editor.questionType = "static"
        THEN editor' = StaticPreview(variables)
        ELSE \E out \in PreviewOutcomes(variables, editor.methods, toRandomize) :
               editor' = [editor EXCEPT
                 !.variables = variables,
                 !.preview = out.preview,
                 !.finalAnsPreview = IF out.ok THEN out.finalAnsPreview ELSE @,
                 !.toast = PreviewToast(editor.methods, out, toRandomize)]
  /\ UNCHANGED <<qats, attempts, masteries, req, sub, tab, deleted, verification, users, account>>

\* lines 1096-1225
handlePreviewChange(toRandomize) ==
  /\ LET variables == TrimmedNames(editor.variables)
     IN IF editor.questionType = "static"
        THEN editor' = StaticPreview(variables)
        ELSE \E out \in PreviewOutcomes(variables, editor.methods, toRandomize) :
               editor' = [editor EXCEPT
                 !.variables = variables,
                 !.preview = out.preview,
                 !.finalAnsPreview = out.finalAnsPreview,
                 !.toast = PreviewToast(editor.methods, out, toRandomize)]
  /\ UNCHANGED <<qats, attempts, masteries, req, sub, tab, deleted, verification, users, account>>

\* a submit button without the defaults of its onClick
Clicked_NoDefaults(values, questionType) == values

\* onClick of the submit button, lines 2379-2399
Clicked(values, questionType) ==
  IF questionType = "static"
  THEN [values EXCEPT
          !.answers = IF @ = None THEN Some(<<>>) ELSE @,
          !.variables = IF @ = Some(<<>>) THEN None ELSE @,
          !.methods = IF @ = Some(<<>>) THEN None ELSE @]
  ELSE [values EXCEPT
          !.answers = None,
          !.variables = IF @ = None THEN Some(<<>>) ELSE @,
          !.methods = IF @ = None THEN Some(<<>>) ELSE @]

\* the body of addQuestion or editQuestion, lines 1865-1903
Payload(currIds, values, questionType) ==
  [method |-> IF currIds = None THEN "add" ELSE "edit",
   baseQuestionId |-> values.baseQuestionId,
   variationId |-> IF questionType = "dynamic" THEN 0 ELSE values.variationId,
   questionData |-> [variables |-> values.variables, methods |-> values.methods,
                     answers |-> values.answers]]

\* a press of the submit button: its onClick, then form.onSubmit, which
\* validates and either sends the request or toasts the errors
PressSubmit ==
  /\ Len(editor.sent) < MaxSent
  /\ LET values == Clicked([baseQuestionId |-> editor.baseQuestionId,
                             variationId |-> editor.variationId,
                             variables |-> editor.variables,
                             methods |-> editor.methods,
                             answers |-> editor.answers], editor.questionType)
     IN editor' = [editor EXCEPT
          !.variables = values.variables,
          !.methods = values.methods,
          !.answers = values.answers,
          !.toast = IF Validate(values) THEN @ ELSE Toast("validation"),
          !.sent = IF Validate(values)
                   THEN Append(@, Payload(editor.currIds, values, editor.questionType))
                   ELSE @]
  /\ UNCHANGED <<qats, attempts, masteries, req, sub, tab, deleted, verification, users, account>>

\* the questions of /api/question/admin, as the question bank lists them
Listing(rows) == [i \in 1..Len(rows) |-> [questionId |-> rows[i][1], variationId |-> rows[i][2]]]
bankListing == Listing(<< <<1, 0>>, <<2, 1>>, <<89, 1>> >>)

\* the values of the form for a question of the bank
FormOf(q) ==
  [baseQuestionId |-> None, variationId |-> q.variationId,
   variables |->
     IF q.questionData.variables = None THEN None
     ELSE Some([i \in 1..Len(q.questionData.variables[1]) |->
                  [q.questionData.variables[1][i] EXCEPT !.name = <<@>>]]),
   methods |-> q.questionData.methods,
   answers |->
     IF q.questionData.answers = None THEN None
     ELSE Some([i \in 1..Len(q.questionData.answers[1]) |->
                  [answerContent |-> ToString(q.questionData.answers[1][i].answerContent),
                   isCorrect |-> q.questionData.answers[1][i].isCorrect]])]
emptyForm(variationId) ==
  [baseQuestionId |-> None, variationId |-> variationId,
   variables |-> None, methods |-> None, answers |-> None]

\* the editors an author opens: for a new question, or for a question of
\* the bank
Editors(questions) ==
  {OpenEditor(questions, None, emptyForm(variationId)) : variationId \in {0, 1}}
  \cup {OpenEditor(questions, Some(<<q.questionId, q.variationId>>), FormOf(q)) :
          q \in {QuestionOf(1, 0), QuestionOf(2, 1)}}

(* ------------------------- verification tokens ------------------------- *)
Identifiers == {"a@e.u", "b@e.u"}
Creates == 1..MaxCreate

\* no token is stored and no call was made; the data of a
\* createVerificationToken call is its identifier and a token of its own
\* (the token column is unique)
noVerification ==
  [tokens |-> {},
   creates |-> [c \in Creates |-> [pc |-> "idle", identifier |-> "a@e.u", token |-> 0]],
   used |-> <<>>]

\* NextAuth calls createVerificationToken(data) for a sign-in email
createVerificationToken(c, identifier) ==
  /\ verification.creates[c].pc = "idle"
  /\ \A earlier \in 1..(c - 1) : verification.creates[earlier].pc # "idle"
  /\ verification' = [verification EXCEPT
       !.creates[c] = [pc |-> "deleteMany", identifier |-> identifier, token |-> c]]
  /\ UNCHANGED <<qats, attempts, masteries, req, sub, tab, deleted, editor, users, account>>

\* lines 15-17: await prisma.verificationToken.deleteMany
deleteMany(c) ==
  /\ verification.creates[c].pc = "deleteMany"
  /\ verification' = [verification EXCEPT
       !.tokens = {row \in @ : row.identifier # verification.creates[c].identifier},
       !.creates[c].pc = "create"]
  /\ UNCHANGED <<qats, attempts, masteries, req, sub, tab, deleted, editor, users, account>>

\* lines 19-23: await prisma.verificationToken.create, and the return
create(c) ==
  /\ verification.creates[c].pc = "create"
  /\ verification' = [verification EXCEPT
       !.tokens = @ \cup {[identifier |-> verification.creates[c].identifier,
                           token |-> verification.creates[c].token]},
       !.creates[c].pc = "done"]
  /\ UNCHANGED <<qats, attempts, masteries, req, sub, tab, deleted, editor, users, account>>

\* prisma.verificationToken.findUnique: the row, or null
findUnique(rows, identifier, token) ==
  IF [identifier |-> identifier, token |-> token] \in rows
  THEN Some([identifier |-> identifier, token |-> token])
  ELSE None

\* a token that is deleted when it is used
useVerificationToken_Deletes(identifier, token) ==
  /\ Len(verification.used) < MaxUse
  /\ verification' = [verification EXCEPT
       !.tokens = @ \ {[identifier |-> identifier, token |-> token]},
       !.used = Append(@, [identifier |-> identifier, token |-> token,
                           result |-> findUnique(verification.tokens, identifier, token)])]
  /\ UNCHANGED <<qats, attempts, masteries, req, sub, tab, deleted, editor, users, account>>

\* lines 25-40, with what it returned
useVerificationToken(identifier, token) ==
  /\ Len(verification.used) < MaxUse
  /\ verification' = [verification EXCEPT
       !.used = Append(@, [identifier |-> identifier, token |-> token,
                           result |-> findUnique(verification.tokens, identifier, token)])]
  /\ UNCHANGED <<qats, attempts, masteries, req, sub, tab, deleted, editor, users, account>>

(* --------------------------------- addUser ----------------------------- *)
Adds == 1..MaxAdd

\* no User row for the email
noUser ==
  [exists |-> FALSE, points |-> 0, loginStreak |-> 0, role |-> "USER",
   isNewUser |-> TRUE, username |-> ""]

\* no user, and no addUser request
noUsers ==
  [rows |-> [email \in Identifiers |-> noUser],
   adds |-> [a \in Adds |->
               [pc |-> "idle", email |-> "a@e.u", status |-> 0, addedToUsers |-> FALSE]]]

\* lines 9-21: findFirst by the email of the query, and the answer when a
\* user has it
addUser(a, email) ==
  /\ users.adds[a].pc = "idle"
  /\ \A earlier \in 1..(a - 1) : users.adds[earlier].pc # "idle"
  /\ users' = [users EXCEPT !.adds[a] =
       IF users.rows[email].exists
       THEN [pc |-> "done", email |-> email, status |-> 200, addedToUsers |-> FALSE]
       ELSE [pc |-> "upsert", email |-> email, status |-> 0, addedToUsers |-> FALSE]]
  /\ UNCHANGED <<qats, attempts, masteries, req, sub, tab, deleted, editor,
                 verification, account>>

\* an upsert whose update sets points and loginStreak to their column
\* defaults
upsert_Updates(a) ==
  /\ users.adds[a].pc = "upsert"
  /\ users' = [users EXCEPT
       !.rows[users.adds[a].email] =
          IF @.exists THEN [@ EXCEPT !.points = 1, !.loginStreak = 1]
          ELSE [exists |-> TRUE, points |-> 0, loginStreak |-> 0, role |-> "USER",
                isNewUser |-> TRUE, username |-> users.adds[a].email],
       !.adds[a] = [@ EXCEPT !.pc = "done", !.status = 201, !.addedToUsers = TRUE]]
  /\ UNCHANGED <<qats, attempts, masteries, req, sub, tab, deleted, editor,
                 verification, account>>

\* lines 23-42: prisma.user.upsert with "update: {}", and the answer
upsert(a) ==
  /\ users.adds[a].pc = "upsert"
  /\ users' = [users EXCEPT
       !.rows[users.adds[a].email] =
          IF @.exists THEN @
          ELSE [exists |-> TRUE, points |-> 0, loginStreak |-> 0, role |-> "USER",
                isNewUser |-> TRUE, username |-> users.adds[a].email],
       !.adds[a] = [@ EXCEPT !.pc = "done", !.status = 201, !.addedToUsers = TRUE]]
  /\ UNCHANGED <<qats, attempts, masteries, req, sub, tab, deleted, editor,
                 verification, account>>

(* --------------------------- specification ----------------------------- *)
\* nothing was deleted
InitAdmin ==
  /\ deleted = [users |-> {}, courses |-> {}, qats |-> {}, attempts |-> {}]
  /\ editor = OpenEditor(bankListing, None, emptyForm(1))
  /\ verification = noVerification
  /\ users = noUsers
  /\ account = idleAccount

Init ==
  /\ InitAdmin
  /\ qats = <<>>
  /\ attempts = <<>>
  /\ masteries = [k \in Users \X Range(TopicSlugs) |->
                    noMastery]
  /\ req = [r \in Requests |-> idleReq]
  /\ sub = [s \in Submits |-> idleSub]
  /\ tab = idleTab

\* the welcome quiz page of one browser, and the two handlers behind it
Next ==
  \/ \E r \in Requests : TabFetch(r)
  \/ TabReceive
  \/ \E key \in {"a", "b", "c"} : TabSelect(key)
  \/ \E s \in Submits : TabSubmit(s)
  \/ TabSubmitSuccess
  \/ \E r \in Requests : ReqFind(r)
  \/ \E r \in Requests : ReqRecommend(r)
  \/ \E r \in Requests : ReqCreate(r)
  \/ \E s \in Submits : SubCreateAttempt(s)
  \/ \E s \in Submits : SubReadMastery(s)
  \/ \E s \in Submits : SubWriteMastery(s)

Spec == Init /\ [][Next]_vars

\* the questionsWithAddedTime handler called directly by the signed-in user,
\* with any query
NextHandler ==
  \/ \E r \in Requests, courseSlug \in Courses, prevId \in PrevIds :
       Request(r, Some(tabUser), courseSlug, prevId)
  \/ \E r \in Requests : ReqFind(r)
  \/ \E r \in Requests : ReqRecommend(r)
  \/ \E r \in Requests : ReqCreate(r)

SpecHandler == Init /\ [][NextHandler]_vars

\* one request for the user's question of the welcome quiz, and submissions
\* for that question sent side by side
NextSubmit ==
  \/ Request(1, Some(tabUser), welcomeQuiz, <<>>)
  \/ \E r \in Requests : ReqFind(r)
  \/ \E r \in Requests : ReqRecommend(r)
  \/ \E r \in Requests : ReqCreate(r)
  \/ \E s \in Submits, qatId \in 1..Len(qats), isCorrect \in BOOLEAN :
       Submission(s, tabUser, qatId, isCorrect)
  \/ \E s \in Submits : SubCreateAttempt(s)
  \/ \E s \in Submits : SubReadMastery(s)
  \/ \E s \in Submits : SubWriteMastery(s)

SpecSubmit == Init /\ [][NextSubmit]_vars

\* the Mastery rows the user may have when a question is asked for: none
\* for a topic, or one with any level
InitRecommend ==
  /\ InitAdmin
  /\ qats = <<>>
  /\ attempts = <<>>
  /\ \E rowA, rowB \in {noMastery} \cup
                          {[initialize("tA") EXCEPT !.masteryLevel = level] :
                             level \in 0..MasteryScale} :
       masteries = [k \in Users \X Range(TopicSlugs) |->
                      IF k = <<tabUser, "tA">> THEN rowA
                      ELSE IF k = <<tabUser, "tB">> THEN rowB
                      ELSE noMastery]
  /\ req = [r \in Requests |-> idleReq]
  /\ sub = [s \in Submits |-> idleSub]
  /\ tab = idleTab

\* one request of a user whose masteries of the course's topics are any
NextRecommend ==
  \/ \E prevId \in PrevIds : Request(1, Some(tabUser), welcomeQuiz, prevId)
  \/ \E r \in Requests : ReqFind(r)
  \/ \E r \in Requests : ReqRecommend(r)
  \/ \E r \in Requests : ReqCreate(r)

SpecRecommend == InitRecommend /\ [][NextRecommend]_vars

\* a request and a submission of a user who exists, for a course and a row
\* that exist, while users and courses are deleted
NextDelete ==
  \/ \E courseSlug \in Courses :
       /\ tabUser \notin deleted.users /\ courseSlug \notin deleted.courses
       /\ Request(1, Some(tabUser), courseSlug, <<>>)
  \/ \E r \in Requests : ReqFind(r)
  \/ \E r \in Requests : ReqRecommend(r)
  \/ \E r \in Requests : ReqCreate(r)
  \/ \E qatId \in 1..Len(qats) \ deleted.qats, isCorrect \in BOOLEAN :
       Submission(1, tabUser, qatId, isCorrect)
  \/ \E s \in Submits : SubCreateAttempt(s)
  \/ \E s \in Submits : SubReadMastery(s)
  \/ \E s \in Submits : SubWriteMastery(s)
  \/ \E userId \in Users : DeleteUser(userId)
  \/ \E courseSlug \in Courses : DeleteCourse(courseSlug)

SpecDelete == Init /\ [][NextDelete]_vars

\* an editor opened with one of the listings of the questions
InitEditors(listings) ==
  /\ qats = <<>>
  /\ attempts = <<>>
  /\ masteries = [k \in Users \X Range(TopicSlugs) |-> noMastery]
  /\ req = [r \in Requests |-> idleReq]
  /\ sub = [s \in Submits |-> idleSub]
  /\ tab = idleTab
  /\ deleted = [users |-> {}, courses |-> {}, qats |-> {}, attempts |-> {}]
  /\ verification = noVerification
  /\ users = noUsers
  /\ account = idleAccount
  /\ \E questions \in listings : editor \in Editors(questions)

\* the listings of the questions: the variations 1..MaxVariation of
\* question 2 and the dynamic question 1, any of them, in any order
Listings ==
  UNION {{Listing(o) : o \in OrdersOf(S)} :
           S \in SUBSET ({<<1, 0>>} \cup {<<2, v>> : v \in 1..MaxVariation})}

\* the type switch and the base question of an editor, and its submit
NextVariation ==
  \/ \E value \in {"dynamic", "static"} : setQuestionType(value)
  \/ \E value \in BaseQuestionOptions : SelectBaseQuestion(value)
  \/ PressSubmit

SpecVariation == InitEditors(Listings) /\ [][NextVariation]_vars

\* an author at the answers of a question
NextAnswers ==
  \/ \E value \in {"dynamic", "static"} : setQuestionType(value)
  \/ newAnswer
  \/ \E index \in 1..MaxAnswers, content \in {<<>>, <<"1">>} :
       TypeAnswerContent(index, content)
  \/ \E index \in 1..MaxAnswers : ToggleCorrect(index)
  \/ \E index \in 1..MaxAnswers : removeAnswer(index)
  \/ \E value \in BaseQuestionOptions : SelectBaseQuestion(value)
  \/ ClearAll
  \/ PressSubmit

SpecAnswers == InitEditors({bankListing}) /\ [][NextAnswers]_vars

\* an author at the variables, the methods and the preview of a question
NextPreview ==
  \/ \E index \in 1..2, name \in {<<"x">>, <<" ", "x">>, <<"y">>} :
       TypeVariableName(index, name)
  \/ \E expr \in {<<"y", "=", "x">>, <<" ", "y", "=", "x">>, <<"y", "=">>,
                   <<"y", "=", " ">>, <<"y", "=", "x", "=", "x">>} :
       TypeMethodExpr(1, expr)
  \/ \E toRandomize \in BOOLEAN : handlePreviewChange(toRandomize)
  \/ PressSubmit

SpecPreview == InitEditors({bankListing}) /\ [][NextPreview]_vars

\* sign-in emails asked for and verification links opened, in any order
NextTokens ==
  \/ \E c \in Creates, identifier \in Identifiers : createVerificationToken(c, identifier)
  \/ \E c \in Creates : deleteMany(c)
  \/ \E c \in Creates : create(c)
  \/ \E identifier \in Identifiers, token \in Creates :
       useVerificationToken(identifier, token)

SpecTokens == Init /\ [][NextTokens]_vars

\* the request of one caller, with or without a session, repeated for the
\* welcome quiz without a prevId: each one is sent after the answer to the
\* one before it
Repeat(r, session) ==
  /\ \A earlier \in 1..(r - 1) : req[earlier].pc = "done"
  /\ Request(r, session, welcomeQuiz, <<>>)

NextRepeat ==
  \/ \E r \in Requests, session \in Sessions : Repeat(r, session)
  \/ \E r \in Requests : ReqFind(r)
  \/ \E r \in Requests : ReqRecommend(r)
  \/ \E r \in Requests : ReqCreate(r)

SpecRepeat == InitRecommend /\ [][NextRepeat]_vars

\* the invocations of the two handlers that have answered, and whose
\* answers the page has taken, are over
Forget ==
  /\ tab.fetching = 0 /\ tab.submitAnswerStatus # "loading"
  /\ \A r \in Requests : req[r].pc \in {"idle", "done"}
  /\ \A s \in Submits : sub[s].pc \in {"idle", "done"}
  /\ \E s \in Submits : sub[s].pc = "done"
  /\ req' = [r \in Requests |-> idleReq]
  /\ sub' = [s \in Submits |-> idleSub]
  /\ UNCHANGED <<qats, attempts, masteries, tab>>
  /\ UNCHANGED adminVars

\* one page session of the welcome quiz, as long as the user goes on
\* answering (with the first option, for the count of the submissions)
NextQuiz ==
  \/ \E r \in Requests : TabFetch(r)
  \/ TabReceive
  \/ TabSelect("a")
  \/ \E s \in Submits : TabSubmit(s)
  \/ TabSubmitSuccess
  \/ \E r \in Requests : ReqFind(r)
  \/ \E r \in Requests : ReqRecommend(r)
  \/ \E r \in Requests : ReqCreate(r)
  \/ \E s \in Submits : SubCreateAttempt(s)
  \/ \E s \in Submits : SubReadMastery(s)
  \/ \E s \in Submits : SubWriteMastery(s)
  \/ Forget

SpecQuiz == Init /\ [][NextQuiz]_vars

\* the User rows when addUser is called: for each email none, one that
\* addUser created, or one of a user who has used the platform since
InitUsers ==
  /\ qats = <<>>
  /\ attempts = <<>>
  /\ masteries = [k \in Users \X Range(TopicSlugs) |-> noMastery]
  /\ req = [r \in Requests |-> idleReq]
  /\ sub = [s \in Submits |-> idleSub]
  /\ tab = idleTab
  /\ deleted = [users |-> {}, courses |-> {}, qats |-> {}, attempts |-> {}]
  /\ editor = OpenEditor(bankListing, None, emptyForm(1))
  /\ verification = noVerification
  /\ account = idleAccount
  /\ \E rows \in [Identifiers ->
                    {noUser,
                     [exists |-> TRUE, points |-> 0, loginStreak |-> 0, role |-> "USER",
                      isNewUser |-> TRUE, username |-> "a@e.u"],
                     [exists |-> TRUE, points |-> 7, loginStreak |-> 2, role |-> "ADMIN",
                      isNewUser |-> FALSE, username |-> "ann"]}] :
       users = [noUsers EXCEPT !.rows = rows]

\* addUser requests, side by side
NextUsers ==
  \/ \E a \in Adds, email \in Identifiers : addUser(a, email)
  \/ \E a \in Adds : upsert(a)

SpecUsers == InitUsers /\ [][NextUsers]_vars

\* the user opens the welcome quiz on any day: the last activity was on
\* that day or before, with or without attempts
InitPoints ==
  /\ qats = <<>>
  /\ attempts = <<>>
  /\ masteries = [k \in Users \X Range(TopicSlugs) |-> noMastery]
  /\ req = [r \in Requests |-> idleReq]
  /\ sub = [s \in Submits |-> idleSub]
  /\ tab = idleTab
  /\ deleted = [users |-> {}, courses |-> {}, qats |-> {}, attempts |-> {}]
  /\ editor = OpenEditor(bankListing, None, emptyForm(1))
  /\ verification = noVerification
  /\ users = noUsers
  /\ \E today \in Days, count \in {0, 2} : \E lastActive \in 0..today :
       account = [idleAccount EXCEPT !.today = today, !.lastActive = lastActive,
                                     !.attempts[lastActive] = count]

\* the welcome quiz page with its points, and the handlers behind it
NextPoints ==
  \/ \E r \in Requests : TabFetch(r)
  \/ TabReceive
  \/ TabSelect("a")
  \/ \E s \in Submits : TabSubmit(s)
  \/ TabSubmitSuccess
  \/ UserInfoFetch
  \/ \E i \in 1..MaxSubmit : updatePoints(i)
  \/ Midnight
  \/ \E r \in Requests : ReqFind(r)
  \/ \E r \in Requests : ReqRecommend(r)
  \/ \E r \in Requests : ReqCreate(r)
  \/ \E s \in Submits : SubCreateAttempt(s)
  \/ \E s \in Submits : SubReadMastery(s)
  \/ \E s \in Submits : SubWriteMastery(s)

SpecPoints == InitPoints /\ [][NextPoints]_vars

(* ------------------------------ properties ----------------------------- *)
\* the request created the row it answered with
Created(r) ==
  req[r].pc = "done" /\ req[r].status = 200 /\ req[r].recommendedQuestion # None
\* CustomEval threw while the request was handled
EvalFailed(r) ==
  req[r].evaluatedQuestionData # None /\ ~req[r].evaluatedQuestionData[1].ok
HasAttempt(atts, qatId) == \E i \in 1..Len(atts) : atts[i].qatId = qatId
CorrectKeySet(answerOptions) ==
  {answerOptions[i].key : i \in {j \in 1..Len(answerOptions) : answerOptions[j].isCorrect}}

\* C1: the question instance a request is answered with, found or newly
\* created, never has a questionId of the excluded ids (the retired ids plus
\* the prevId of the request)
C1_ReturnedNotExcluded ==
  \A r \in Requests :
    req[r].pc = "done" /\ req[r].status = 200
      => ~Includes(ExcludedIds(req[r].prevId), qats[req[r].body].questionId)

\* C2: a submission is sent with isCorrect true exactly when the set of the
\* selected keys equals the set of the keys of the correct options
C2_IsCorrectIffSameKeySet ==
  [][\A s \in Submits :
       sub[s].pc = "idle" /\ sub'[s].pc # "idle"
         => (sub'[s].isCorrect
               <=> Range(tab.selectedKeys) = CorrectKeySet(qats[tab.ucqat].answers))]_vars

\* C2 happens: on a question with two correct keys out of three, one
\* submission was sent as correct and another as incorrect
C2_Witness ==
  \E s1, s2 \in Submits :
    /\ sub[s1].pc # "idle" /\ sub[s2].pc # "idle"
    /\ Cardinality(CorrectKeySet(qats[sub[s1].qatId].answers)) = 2
    /\ Cardinality(CorrectKeySet(qats[sub[s2].qatId].answers)) = 2
    /\ sub[s1].isCorrect /\ ~sub[s2].isCorrect

\* C3: two requests of one user for one course, neither with a prevId, that
\* both created an instance were answered with the same instance
C3_OneCurrentInstance ==
  \A r1, r2 \in Requests :
    /\ Created(r1) /\ Created(r2)
    /\ req[r1].session = req[r2].session /\ req[r1].courseSlug = req[r2].courseSlug
    /\ req[r1].prevId = <<>> /\ req[r2].prevId = <<>>
    => req[r1].body = req[r2].body

\* C4: no two Attempt rows reference the same qatId
C4_OneAttemptPerInstance ==
  \A i, j \in 1..Len(attempts) : attempts[i].qatId = attempts[j].qatId => i = j

\* C5: the instance a request is answered with has no Attempt at that
\* moment, and is the most recent such instance of the user and the course
C5_ReturnsMostRecentUnattempted ==
  [][\A r \in Requests :
       req[r].pc # "done" /\ req'[r].pc = "done" /\ req'[r].status = 200
         => /\ ~HasAttempt(attempts', req'[r].body)
            /\ \A i \in 1..Len(qats') :
                 /\ qats'[i].userId = req'[r].session[1]
                 /\ qats'[i].courseSlug = req'[r].courseSlug
                 /\ ~HasAttempt(attempts', i)
                 => i <= req'[r].body]_vars

\* C6: a request during which CustomEval failed ends with status 500 and
\* without a question in its answer, and no row exists but the rows of the
\* requests that were answered with the row they created
C6_EvalFailureCreatesNothing ==
  /\ \A r \in Requests :
       EvalFailed(r) => req[r].pc = "done" /\ req[r].status = 500 /\ req[r].body = 0
  /\ Len(qats) = Cardinality({r \in Requests : Created(r)})

\* C6 happens: CustomEval failed on the method with index 1 and the request is over
C6_Witness ==
  \E r \in Requests :
    EvalFailed(r) /\ req[r].evaluatedQuestionData[1].index = 1 /\ req[r].pc = "done"

\* C7: a request for a course that has no question is answered with status
\* 200 and an empty result
C7_ExhaustedIsValue ==
  \A r \in Requests :
    /\ req[r].pc = "done"
    /\ {q \in Questions : Includes(CourseTopics(req[r].courseSlug), q.topicSlug)} = {}
    => req[r].status = 200 /\ req[r].body = 0

\* C8: the row a request created holds, for a dynamic question, the resolved
\* variables of CustomEval and an ordering of its resolved answers; for a
\* static question CustomEval was not called, and the row holds the stored
\* variables and an ordering of the stored answers
C8_NewRowData ==
  \A r \in Requests :
    Created(r) =>
      LET row == qats[req[r].body]
          q == QuestionOf(req[r].recommendedQuestion[1][1], req[r].recommendedQuestion[1][2])
          ev == req[r].evaluatedQuestionData
      IN /\ row.questionId = q.questionId /\ row.variationId = q.variationId
         /\ IF q.variationId = 0
            THEN /\ ev # None
                 /\ row.variables = ev[1].questionVariables
                 /\ row.answers \in Orderings(ev[1].questionAnswers[1])
            ELSE /\ ev = None
                 /\ row.variables = q.questionData.variables
                 /\ row.answers \in Orderings(q.questionData.answers[1])

\* C8 happens: one request created the row of a dynamic question, another
\* the row of a static question
C8_Witness ==
  \E r1, r2 \in Requests :
    /\ Created(r1) /\ qats[req[r1].body].variationId = 0
    /\ Created(r2) /\ qats[req[r2].body].variationId >= 1

\* the mastery after the updates of the submissions order[1], order[2], ...
RECURSIVE ApplyUpdates(_, _)
ApplyUpdates(level, order) ==
  IF order = <<>> THEN level
  ELSE ApplyUpdates(UpdatedMastery(level, sub[Head(order)].isCorrect), Tail(order))

Committed(k) ==
  {s \in Submits : sub[s].pc = "done" /\ <<sub[s].userId, sub[s].topicSlug>> = k}

\* C9: the stored mastery of a user and topic is the result of applying the
\* updates of all finished submissions one after the other, in some order
C9_NoLostUpdate ==
  \A k \in DOMAIN masteries :
    IF masteries[k].exists
    THEN masteries[k].masteryLevel \in
           {ApplyUpdates(topicPrior, order) : order \in OrdersOf(Committed(k))}
    ELSE Committed(k) = {}

\* C9 happens: a submission finished while another one, for the same user
\* and topic, holds a mastery it read before
C9_Witness ==
  \E s1, s2 \in Submits :
    /\ sub[s1].pc = "done" /\ sub[s2].pc = "write"
    /\ sub[s1].userId = sub[s2].userId /\ sub[s1].topicSlug = sub[s2].topicSlug
    /\ sub[s2].readVersion < masteries[<<sub[s2].userId, sub[s2].topicSlug>>].version

\* C10: a correct attempt never lowers the stored mastery, an incorrect one
\* never raises it, and the mastery stays within [0, 1]
C10_MonotonicBounded ==
  /\ [](\A k \in DOMAIN masteries :
          0 <= masteries[k].masteryLevel /\ masteries[k].masteryLevel <= MasteryScale)
  /\ [][\A s \in Submits :
          sub[s].pc = "write" /\ sub'[s].pc = "done"
            => LET k == <<sub[s].userId, sub[s].topicSlug>>
               IN IF sub[s].isCorrect
                  THEN masteries'[k].masteryLevel >= masteries[k].masteryLevel
                  ELSE masteries'[k].masteryLevel <= masteries[k].masteryLevel]_vars

\* C10 happens: after a correct and an incorrect attempt on one topic the
\* mastery has moved off the prior
C10_Witness ==
  \E s1, s2 \in Submits :
    /\ sub[s1].pc = "done" /\ sub[s2].pc = "done"
    /\ sub[s1].topicSlug = sub[s2].topicSlug
    /\ sub[s1].isCorrect /\ ~sub[s2].isCorrect
    /\ masteries[<<sub[s1].userId, sub[s1].topicSlug>>].masteryLevel # topicPrior

\* C11: the question the Recommender gives is of the course's topic with the
\* lowest mastery of the user, and of the first declared one among the
\* topics that share the lowest mastery
C11_LowestMasteryTopic ==
  [][\A r \in Requests :
       (req[r].pc = "recommend" /\ req'[r].pc # "recommend"
        /\ req'[r].recommendedQuestion # None) =>
         LET topics == CourseTopics(req[r].courseSlug)
             rq == req'[r].recommendedQuestion[1]
             level(t) == MasteryLevelOf(masteries', req[r].session, t)
         IN \E i \in 1..Len(topics) :
              /\ topics[i] = QuestionOf(rq[1], rq[2]).topicSlug
              /\ \A j \in 1..Len(topics) :
                   /\ level(topics[j]) >= level(topics[i])
                   /\ j < i => level(topics[j]) > level(topics[i])]_vars
\* a question of the second topic was given because the mastery of the first
\* topic is higher
C11_Witness ==
  \E r \in Requests :
    /\ Created(r)
    /\ QuestionOf(qats[req[r].body].questionId,
                  qats[req[r].body].variationId).topicSlug = "tB"
    /\ masteries[<<tabUser, "tA">>].masteryLevel > masteries[<<tabUser, "tB">>].masteryLevel

C13_NoDanglingReferences ==
  /\ \A i \in 1..Len(qats) \ deleted.qats :
       /\ qats[i].userId \notin deleted.users
       /\ qats[i].courseSlug \notin deleted.courses
  /\ \A i \in 1..Len(attempts) \ deleted.attempts :
       /\ attempts[i].userId \notin deleted.users
       /\ attempts[i].courseSlug \notin deleted.courses
       /\ attempts[i].qatId \notin deleted.qats

\* the request an editor has just sent
LastSent(ed) == ed.sent[Len(ed.sent)]

\* C14: after a base question is selected, the variation id of the form is
\* the smallest positive integer that no listed variation of that question
\* id has, whatever the order of the listing
C14_SmallestUnusedVariation ==
  editor.baseQuestionId # None =>
    LET used == {editor.questions[i].variationId :
                   i \in {j \in 1..Len(editor.questions) :
                            editor.questions[j].questionId = parseInt(editor.baseQuestionId[1])}}
    IN editor.variationId = SetMin((1..(Cardinality(used) + 1)) \ used)

\* C15: the variation id of a request the editor sends is 0 exactly when
\* the question type is dynamic, and at least 1 when it is static
C15_SentVariationMatchesType ==
  [][Len(editor'.sent) > Len(editor.sent) =>
       /\ LastSent(editor').variationId = 0 <=> editor.questionType = "dynamic"
       /\ editor.questionType = "static" => LastSent(editor').variationId >= 1]_vars
\* a static question was sent from an editor opened on a dynamic question
C15_Witness ==
  /\ editor.currIds = Some(<<1, 0>>)
  /\ editor.questionType = "static"
  /\ editor.sent # <<>> /\ LastSent(editor).variationId >= 1

\* C18: every method of every request the editor has sent has an
\* expression with exactly one "=" and text that is not blank on both sides
C18_SentMethodsWellFormed ==
  \A k \in 1..Len(editor.sent) :
    LET methods == ListOf(editor.sent[k].questionData.methods)
    IN \A i \in 1..Len(methods) :
         LET expr == methods[i].expr
             eq == CHOOSE j \in 1..Len(expr) : expr[j] = "="
         IN /\ Count(expr, "=") = 1
            /\ Trim(SubSeq(expr, 1, eq - 1)) # <<>>
            /\ Trim(SubSeq(expr, eq + 1, Len(expr))) # <<>>
\* a method was sent as it was typed, with its leading blank
C18_Witness ==
  /\ editor.sent # <<>>
  /\ LastSent(editor).questionData.methods = Some(<< [expr |-> <<" ", "y", "=", "x">>] >>)

\* C19: a request the editor sends for a static question has at least two
\* answer options and at least one of them marked correct
C19_StaticSentWithAnswers ==
  [][(Len(editor'.sent) > Len(editor.sent) /\ editor.questionType = "static") =>
       LET answers == LastSent(editor').questionData.answers
       IN /\ answers # None
          /\ Len(answers[1]) >= 2
          /\ \E i \in 1..Len(answers[1]) : answers[1][i].isCorrect]_vars
\* the submit button was pressed for a new static question whose answers
\* were not filled in: the errors are shown and nothing was sent
C19_Witness ==
  /\ editor.currIds = None /\ editor.questionType = "static"
  /\ editor.answers = Some(<<>>)
  /\ editor.toast.kind = "validation"
  /\ editor.sent = <<>>

\* a preview refresh whose evaluation failed
PreviewFailed ==
  /\ \E toRandomize \in BOOLEAN : handlePreviewChange(toRandomize)
  /\ editor.questionType = "dynamic"
  /\ editor'.toast.kind \in {"invalid-methods", "error"}
\* the failure is reported: both previews hold the invalid message, the
\* toast of the cause "invalid-methods" names the method, nothing is sent
\* and the methods are as they were
FailureReported ==
  /\ editor'.preview = invalidMessage
  /\ editor'.finalAnsPreview = invalidMessage
  /\ editor'.toast.kind = "invalid-methods" =>
       /\ editor'.toast.index \in 1..Len(ListOf(editor.methods))
       /\ editor'.toast.expr = editor.methods[1][editor'.toast.index].expr
       /\ editor'.toast.sanitized = Sanitized(editor'.toast.expr)
  /\ editor'.sent = editor.sent
  /\ editor'.methods = editor.methods

\* C20 as stated: a failed evaluation of a preview refresh is reported and
\* leaves the variables and the methods of the form as they were
C20_FailureLeavesForm ==
  [][PreviewFailed => (FailureReported /\ editor'.variables = editor.variables)]_vars
\* C20: a failed evaluation of a preview refresh is reported and leaves the
\* methods of the form as they were, and its variables as they were but
\* for the blanks around their names, which are trimmed
C20_FailureLeavesFormTrimmed ==
  [][PreviewFailed =>
       (FailureReported /\ editor'.variables = TrimmedNames(editor.variables))]_vars
\* a failed evaluation was reported with the method it failed at
C20_Witness ==
  /\ editor.preview = invalidMessage /\ editor.finalAnsPreview = invalidMessage
  /\ editor.toast.kind = "invalid-methods" /\ editor.toast.index = 1
  /\ editor.sent = <<>>

\* the stored tokens of an identifier
TokensOf(v, identifier) == {row \in v.tokens : row.identifier = identifier}

\* C16: when createVerificationToken returns, its token is the only token
\* stored for its identifier, and the tokens of the other identifiers are
\* the ones stored before
C16_NewTokenOnly ==
  [][\A c \in Creates :
       (verification.creates[c].pc = "create" /\ verification'.creates[c].pc = "done") =>
         /\ TokensOf(verification', verification.creates[c].identifier) =
              {[identifier |-> verification.creates[c].identifier,
                token |-> verification.creates[c].token]}
         /\ \A other \in Identifiers \ {verification.creates[c].identifier} :
              TokensOf(verification', other) = TokensOf(verification, other)]_vars

\* C17: useVerificationToken leaves the stored tokens as they are, and
\* returns the stored row of the pair, or null when the pair is not stored
C17_UseKeepsTokens ==
  [][(\E identifier \in Identifiers, token \in Creates :
        useVerificationToken(identifier, token)) =>
       /\ verification'.tokens = verification.tokens
       /\ LET use == verification'.used[Len(verification'.used)]
          IN use.result = IF [identifier |-> use.identifier, token |-> use.token]
                               \in verification.tokens
                           THEN Some([identifier |-> use.identifier, token |-> use.token])
                           ELSE None]_vars
\* one pair was used twice and both uses returned its token, which is
\* still stored
C17_Witness ==
  /\ Len(verification.used) = 2
  /\ verification.used[1] = verification.used[2]
  /\ verification.used[1].result # None
  /\ verification.used[1].result[1] \in verification.tokens

\* C24: however many times a user repeats the request for a course, with
\* no prevId and no attempt in between, at most one instance of the user
\* and the course is created
C24_RepeatCreatesOne ==
  \A u \in Users :
    Cardinality({i \in 1..Len(qats) :
                   qats[i].userId = u /\ qats[i].courseSlug = welcomeQuiz}) <= 1

\* C25: the instance a request is answered with belongs to the user of the
\* session of the request; a request without a session is answered with no
\* instance of any user
C25_ReturnedToOwner ==
  \A r \in Requests :
    req[r].pc = "done" /\ req[r].status = 200
      => req[r].session # None /\ qats[req[r].body].userId = req[r].session[1]

C21_ExistingUserUntouched ==
  [][\A a \in Adds :
       users'.adds[a] # users.adds[a] /\ users.rows[users'.adds[a].email].exists
         => /\ users'.rows = users.rows
            /\ users.adds[a].pc = "idle"
                 => /\ users'.adds[a].pc = "done"
                    /\ users'.adds[a].status = 200
                    /\ ~users'.adds[a].addedToUsers]_vars
\* a user who has used the platform was looked up by one request, and two
\* other requests for an email came to their upsert, the second one to find
\* the user of the first
C21_Witness ==
  /\ users.rows["b@e.u"].points = 7
  /\ \E a, b, c \in Adds :
       /\ a # b
       /\ users.adds[a] = [pc |-> "done", email |-> "a@e.u", status |-> 201,
                           addedToUsers |-> TRUE]
       /\ users.adds[b] = users.adds[a]
       /\ users.adds[c] = [pc |-> "done", email |-> "b@e.u", status |-> 200,
                           addedToUsers |-> FALSE]

\* C22: when a submission of the page succeeds, the page posts the points
\* of the user plus 5 when the attempt is the only one the user has made on
\* the current day, and plus 1 when the user has made others on that day;
\* stated for a page whose userInfo holds the points and the attempts of
\* the user as they were before the attempt, with no post of points on its
\* way
C22_PointsForAttempt ==
  [][/\ tab'.qnCount = tab.qnCount + 1
     /\ account.pending = <<>>
     /\ account.userInfo # None
     /\ account.userInfo[1].points = account.points
     /\ \A day \in Days :
          account.userInfo[1].attempts[day] =
            account.attempts[day] - (IF day = account.today THEN 1 ELSE 0)
     => account'.pending =
          <<account.points + (IF account.attempts[account.today] = 1 THEN 5 ELSE 1)>>]_vars

====
